---- MODULE Spec2Model ----
(***************************************************************************)
(* A model of diffoscope's streaming diff pipeline (diffoscope/diff.py):   *)
(* the feeders and their bridges (feed, ExThread, fd_from_feeder), the     *)
(* invocation of the external diff (run_diff), the incremental parser of   *)
(* its output (DiffParser) and the output transformers.                    *)
(*                                                                         *)
(* Text is modelled character by character: a string is a sequence of      *)
(* one-character strings, so that the regular expression RANGE_RE, the     *)
(* tests on line[0] and str.splitlines are computed as the code computes   *)
(* them.  Python's None is the string "None" where a field holds a name    *)
(* or a number, the empty sequence for an unmatched regex group, and for   *)
(* _end_nl (None, or a boolean b) the empty sequence against <<b>>.        *)
(***************************************************************************)
EXTENDS Integers, Sequences, FiniteSets, TLC

VARIABLES
    pc,            \* the position of the thread that called diff()
    tmpdir,        \* whether the TemporaryDirectory of diff() exists
    files,         \* the two files f1, f2 of tmpdir: [open, chunks]
    thr,           \* the two ExThreads running feed(): their position
    status_queue,  \* ExThread.__status_queue of each thread
    end_nl_q,      \* end_nl_q1, end_nl_q2: the two Queues of diff()
    proc,          \* the external diff process p of run_diff
    pipe,          \* the lines p wrote to its stdout that were not read yet
    t_read,        \* the position of the thread running parser.parse
    parser,        \* the fields of the DiffParser
    result,        \* what diff() returned or raised
    hist,          \* history: the lines handed to _action ('' last), the state before each
    end_nl_put,    \* history: the values put on each of the two end_nl queues
    fd,            \* one run of the feeder of make_feeder_from_raw_reader
    rev,           \* the last application of reverse_unified_diff
    inv,           \* two invocations of diff() running at the same time
    col            \* one application of color_unified_diff

vars == <<pc, tmpdir, files, thr, status_queue, end_nl_q, proc, pipe, t_read,
          parser, result, hist, end_nl_put, fd, rev, inv, col>>

None == "None"

(***************************************************************************)
(* Characters and strings                                                  *)
(***************************************************************************)
At(s, i) == IF i >= 1 /\ i <= Len(s) THEN s[i] ELSE ""

StartsWith(s, prefix) ==
    /\ Len(s) >= Len(prefix)
    /\ \A i \in 1..Len(prefix) : s[i] = prefix[i]

\* \s of a str pattern, for the characters the model has
IsSpace(c) == c \in {" ", "\t", "\n", "\r"}

\* \d
IsDigit(c) == c \in {"0", "1", "2", "3", "4", "5", "6", "7", "8", "9"}

DigitVal(c) ==
    CASE c = "0" -> 0 [] c = "1" -> 1 [] c = "2" -> 2 [] c = "3" -> 3
      [] c = "4" -> 4 [] c = "5" -> 5 [] c = "6" -> 6 [] c = "7" -> 7
      [] c = "8" -> 8 [] c = "9" -> 9

DigitChar(d) ==
    CASE d = 0 -> "0" [] d = 1 -> "1" [] d = 2 -> "2" [] d = 3 -> "3"
      [] d = 4 -> "4" [] d = 5 -> "5" [] d = 6 -> "6" [] d = 7 -> "7"
      [] d = 8 -> "8" [] d = 9 -> "9"

\* int(s) of a string of digits
RECURSIVE StrToInt(_)
StrToInt(s) ==
    IF s = <<>> THEN 0
    ELSE 10 * StrToInt(SubSeq(s, 1, Len(s) - 1)) + DigitVal(s[Len(s)])

\* '%d' % n, n >= 0
RECURSIVE IntToStr(_)
IntToStr(n) ==
    IF n < 10 THEN <<DigitChar(n)>>
    ELSE IntToStr(n \div 10) \o <<DigitChar(n % 10)>>

\* ''.join(seq)
RECURSIVE Join(_)
Join(seq) == IF seq = <<>> THEN <<>> ELSE Head(seq) \o Join(Tail(seq))

(***************************************************************************)
(* DiffParser.RANGE_RE.match(line):                                        *)
(*   ^@@\s+-(?P<start1>\d+)(,(?P<len1>\d+))?\s+\+(?P<start2>\d+)           *)
(*   (,(?P<len2>\d+))?\s+@@$                                               *)
(* The character classes that follow one another are disjoint, so the      *)
(* expression matches in one way at most and a scan from left to right     *)
(* decides it: RangeScan reads line[i] in the position ph of the           *)
(* expression, g holding the groups read so far.  $ matches at the end of  *)
(* the string and before a newline that ends it.  A group that took no     *)
(* part in the match is the empty sequence.                                *)
(***************************************************************************)
NoMatch == [found |-> FALSE, start1 |-> <<>>, len1 |-> <<>>,
            start2 |-> <<>>, len2 |-> <<>>]

RECURSIVE RangeScan(_, _, _, _)
RangeScan(line, i, ph, g) ==
    LET c == At(line, i) IN
    CASE ph = "@@"  /\ c = "@" /\ At(line, i + 1) = "@"
                                    -> RangeScan(line, i + 2, "s1", g)
      [] ph = "s1"  /\ IsSpace(c)   -> RangeScan(line, i + 1, "s1+", g)
      [] ph = "s1+" /\ IsSpace(c)   -> RangeScan(line, i + 1, "s1+", g)
      [] ph = "s1+" /\ c = "-"      -> RangeScan(line, i + 1, "start1", g)
      [] ph \in {"start1", "start1+"} /\ IsDigit(c)
            -> RangeScan(line, i + 1, "start1+", [g EXCEPT !.start1 = Append(@, c)])
      [] ph = "start1+" /\ c = ","  -> RangeScan(line, i + 1, "len1", g)
      [] ph \in {"len1", "len1+"} /\ IsDigit(c)
            -> RangeScan(line, i + 1, "len1+", [g EXCEPT !.len1 = Append(@, c)])
      [] ph \in {"start1+", "len1+", "s2+"} /\ IsSpace(c)
                                    -> RangeScan(line, i + 1, "s2+", g)
      [] ph = "s2+" /\ c = "+"      -> RangeScan(line, i + 1, "start2", g)
      [] ph \in {"start2", "start2+"} /\ IsDigit(c)
            -> RangeScan(line, i + 1, "start2+", [g EXCEPT !.start2 = Append(@, c)])
      [] ph = "start2+" /\ c = ","  -> RangeScan(line, i + 1, "len2", g)
      [] ph \in {"len2", "len2+"} /\ IsDigit(c)
            -> RangeScan(line, i + 1, "len2+", [g EXCEPT !.len2 = Append(@, c)])
      [] ph \in {"start2+", "len2+", "s3+"} /\ IsSpace(c)
                                    -> RangeScan(line, i + 1, "s3+", g)
      [] ph = "s3+" /\ c = "@" /\ At(line, i + 1) = "@"
                                    -> RangeScan(line, i + 2, "$", g)
      [] ph = "$" /\ (i = Len(line) + 1 \/ (i = Len(line) /\ c = "\n"))
                                    -> [g EXCEPT !.found = TRUE]
      [] OTHER                      -> NoMatch

RANGE_RE(line) == RangeScan(line, 1, "@@", NoMatch)

(***************************************************************************)
(* DiffParser.  The handlers are operators on st = [p, q, blocked]: p the  *)
(* parser's fields, q the two end_nl queues, blocked whether the handler   *)
(* waits in Queue.get() on an empty queue (the step then cannot be taken). *)
(* p.retval is what the handler returned (the next handler, or None) and   *)
(* p.raised the exception it raised: [type, line], or NoException.         *)
(***************************************************************************)
NoException == [type |-> None, line |-> <<>>]

NewParser(max_lines) ==
    [action               |-> "read_headers",
     diff                 |-> <<>>,        \* the strings written to _diff
     success              |-> FALSE,
     remaining_hunk_lines |-> None,
     block_len            |-> None,
     direction            |-> None,
     end_nl               |-> <<>>,
     max_lines            |-> max_lines,
     retval               |-> None,
     raised               |-> NoException]

\* DiffParser.diff: StringIO.getvalue()
ParserDiff(p) == Join(p.diff)

Return(st, handler) == [st EXCEPT !.p.retval = handler]

Raise(st, type, line) ==
    [st EXCEPT !.p.raised = [type |-> type, line |-> line]]

read_headers(st, line) ==
    IF line = <<>> THEN Return(st, None)
    ELSE IF StartsWith(line, <<"-", "-", "-">>) THEN Return(st, "read_headers")
    ELSE IF StartsWith(line, <<"+", "+", "+">>) THEN Return(st, "read_headers")
    ELSE
      LET found == RANGE_RE(line) IN
      IF ~found.found THEN Raise(st, "ValueError: Unable to parse diff headers", line)
      ELSE
        LET l1 == IF found.len1 # <<>> THEN StrToInt(found.len1) ELSE 1
            l2 == IF found.len2 # <<>> THEN StrToInt(found.len2) ELSE 1
        IN  Return([st EXCEPT !.p.diff = Append(@, line),
                              !.p.remaining_hunk_lines = l1 + l2,
                              !.p.direction = None],
                   "read_hunk")

\* lines 126-141 of read_hunk: the line is written and the run is tracked
WriteHunkLine(st, line) ==
    LET w == [st EXCEPT !.p.diff = Append(@, line)] IN
    IF line[1] \in {"-", "+"}
    THEN LET t == IF line[1] = w.p.direction
                  THEN [w EXCEPT !.p.block_len = @ + 1]
                  ELSE [w EXCEPT !.p.block_len = 1, !.p.direction = line[1]]
         IN  IF t.p.block_len >= t.p.max_lines
             THEN Return(t, "skip_block")
             ELSE Return(t, "read_hunk")
    ELSE Return([w EXCEPT !.p.block_len = 1, !.p.direction = line[1]],
                "read_hunk")

\* lines 115-118 of read_hunk reading the first queue only
ResolveEndNl_FirstQueueOnly(st) ==
    IF st.p.end_nl # <<>> THEN st
    ELSE IF st.q[1] = <<>> \/ st.q[2] = <<>> THEN [st EXCEPT !.blocked = TRUE]
    ELSE [st EXCEPT !.p.end_nl = <<Head(st.q[1])>>,
                    !.q = <<Tail(st.q[1]), st.q[2]>>]

\* lines 115-118 of read_hunk: the two queues are read once, then cached
ResolveEndNl(st) ==
    IF st.p.end_nl # <<>> THEN st
    ELSE IF st.q[1] = <<>> \/ st.q[2] = <<>> THEN [st EXCEPT !.blocked = TRUE]
    ELSE [st EXCEPT !.p.end_nl = <<Head(st.q[1]) /\ Head(st.q[2])>>,
                    !.q = [i \in 1..2 |-> Tail(st.q[i])]]

\* read_hunk with a context line counted once
read_hunk_ContextCountsOnce(st, line) ==
    IF line = <<>> THEN Return(st, None)
    ELSE IF line[1] \in {" ", "+", "-"}
         THEN WriteHunkLine([st EXCEPT !.p.remaining_hunk_lines = @ - 1], line)
    ELSE IF line[1] = "\\"
         THEN LET r == ResolveEndNl(st) IN
              IF r.blocked THEN r
              ELSE IF ~r.p.end_nl[1] THEN Return(r, "read_hunk")
              ELSE WriteHunkLine(r, line)
    ELSE IF st.p.remaining_hunk_lines = 0 THEN read_headers(st, line)
    ELSE Raise(st, "ValueError: Unable to parse diff hunk", line)

read_hunk(st, line) ==
    IF line = <<>> THEN Return(st, None)
    ELSE IF line[1] = " "
         THEN WriteHunkLine([st EXCEPT !.p.remaining_hunk_lines = @ - 2], line)
    ELSE IF line[1] \in {"+", "-"}
         THEN WriteHunkLine([st EXCEPT !.p.remaining_hunk_lines = @ - 1], line)
    ELSE IF line[1] = "\\"
         THEN LET r == ResolveEndNl(st) IN
              IF r.blocked THEN r
              ELSE IF ~r.p.end_nl[1] THEN Return(r, "read_hunk")
              ELSE WriteHunkLine(r, line)
    ELSE IF st.p.remaining_hunk_lines = 0 THEN read_headers(st, line)
    ELSE Raise(st, "ValueError: Unable to parse diff hunk", line)

\* '%s[ %d lines removed ]\n' % (direction, removed)
SummaryLine(direction, removed) ==
    <<direction, "[", " ">> \o IntToStr(removed)
        \o <<" ", "l", "i", "n", "e", "s", " ", "r", "e", "m", "o", "v", "e", "d",
             " ", "]", "\n">>

skip_block(st, line) ==
    IF st.p.remaining_hunk_lines # 0 /\ line = <<>>
    THEN Raise(st, "IndexError: string index out of range", line)   \* line[0] of ''
    ELSE IF st.p.remaining_hunk_lines = 0 \/ line[1] # st.p.direction
    THEN LET removed == st.p.block_len - st.p.max_lines
             w == IF removed # 0
                  THEN [st EXCEPT !.p.diff =
                                      Append(@, SummaryLine(st.p.direction, removed))]
                  ELSE st
         IN  read_hunk(w, line)
    ELSE Return([st EXCEPT !.p.block_len = @ + 1,
                           !.p.remaining_hunk_lines = @ - 1],
                "skip_block")

\* self._action(line)
CallAction(st, line) ==
    CASE st.p.action = "read_headers" -> read_headers(st, line)
      [] st.p.action = "read_hunk"    -> read_hunk(st, line)
      [] st.p.action = "skip_block"   -> skip_block(st, line)

\* one turn of the loop of parse(): self._action = self._action(line)
ParseLine(st, line) ==
    LET r == CallAction(st, line) IN
    IF r.blocked \/ r.p.raised # NoException THEN r
    ELSE [r EXCEPT !.p.action = r.p.retval]

\* the end of parse(): self._action(''), then success
ParseEnd(st) ==
    LET r == CallAction(st, <<>>) IN
    IF r.blocked \/ r.p.raised # NoException THEN r
    ELSE [r EXCEPT !.p.success = TRUE]


(***************************************************************************)
(* The lines the external diff can write to its stdout (stderr is merged   *)
(* into it): the lines of `diff -aU7`, lines of its error output, and      *)
(* header lines as RANGE_RE accepts them.  p.stdout is read in binary, so  *)
(* a line ends at "\n" and may hold a carriage return.                     *)
(***************************************************************************)
FileOldLine  == <<"-", "-", "-", " ", "f", "\n">>             \* --- f
FileNewLine  == <<"+", "+", "+", " ", "f", "\n">>             \* +++ f
ContextLine  == <<" ", "a", "\n">>
AddedLine    == <<"+", "a", "\n">>
RemovedLine  == <<"-", "a", "\n">>
MarkerLine   == <<"\\", " ", "N", "o", "\n">>                 \* \ No newline ...
\* a context line of a file that holds a carriage return: " a\r-a\n"
ContextCrLine == <<" ", "a", "\r", "-", "a", "\n">>
ErrorLine    == <<"d", "i", "f", "f", ":", "\n">>             \* diff: ...
BadHeader    == <<"@", "@", " ", "b", "a", "d", " ", "@", "@", "\n">>

\* '@@ -<a> +<b> @@\n', sep between the two ranges
Header(a, sep, b) ==
    <<"@", "@", " ", "-">> \o a \o sep \o <<"+">> \o b \o <<" ", "@", "@", "\n">>

Header_1_1   == Header(<<"1">>, <<" ">>, <<"1">>)                       \* @@ -1 +1 @@
Header_0_3   == Header(<<"1", ",", "0">>, <<" ">>, <<"1", ",", "3">>)   \* @@ -1,0 +1,3 @@
Header_Wide  == Header(<<"2">>, <<" ", " ">>, <<"1", ",", "2">>)        \* @@ -2  +1,2 @@

HeaderLines  == {Header_1_1, Header_0_3, Header_Wide}

\* the lines of the stream parse() is run on; a line of error output fails
\* in every handler as BadHeader does
DiffLines ==
    HeaderLines \cup {FileOldLine, FileNewLine, ContextLine, AddedLine,
                      RemovedLine, MarkerLine, ContextCrLine, BadHeader}

\* Config().max_diff_block_lines_saved, at least 1
MaxBlockLines == 2
BlockLinesSaved == 1..MaxBlockLines

(***************************************************************************)
(* The state the actions of one specification do not use                   *)
(***************************************************************************)
NoProc   == [state |-> "notstarted", towrite |-> 0, returncode |-> None]
NoResult == [kind |-> None]
NoFd     == [state |-> None]
NoRev    == [state |-> None]
NoInv    == [state |-> None]
NoCol    == [state |-> None]
NoFiles  == [i \in 1..2 |-> [open |-> FALSE, exists |-> FALSE, chunks |-> 0]]

\* history: the line parse() is about to hand to _action, and the parser's
\* state before it
HistEntry(line) ==
    [line      |-> line,
     action    |-> parser.action,
     remaining |-> parser.remaining_hunk_lines,
     nout      |-> Len(parser.diff),
     end_nl    |-> parser.end_nl,
     q         |-> end_nl_q]

(***************************************************************************)
(* parse() over an output stream, run on its own: the two queues hold what *)
(* the feeders put, the stream yields up to MaxParseLines lines.           *)
(***************************************************************************)
MaxParseLines == 4

ParseInit ==
    /\ pc = "parse"
    /\ tmpdir = FALSE
    /\ files = NoFiles
    /\ thr = [i \in 1..2 |-> "done"]
    /\ status_queue = [i \in 1..2 |-> <<>>]
    /\ \E b1, b2 \in BOOLEAN : end_nl_q = <<(<<b1>>), (<<b2>>)>>
    /\ end_nl_put = end_nl_q
    /\ proc = NoProc
    /\ pipe = <<>>
    /\ t_read = "running"
    /\ \E m \in BlockLinesSaved : parser = NewParser(m)
    /\ result = NoResult
    /\ hist = <<>>
    /\ fd = NoFd
    /\ rev = NoRev
    /\ inv = NoInv
    /\ col = NoCol

\* for line in self._output: self._action = self._action(line.decode(...))
parse_line(line) ==
    /\ t_read = "running"
    /\ LET r == ParseLine([p |-> parser, q |-> end_nl_q, blocked |-> FALSE], line) IN
       /\ ~r.blocked
       /\ parser' = r.p
       /\ end_nl_q' = r.q
       /\ t_read' = IF r.p.raised # NoException THEN "raised" ELSE "running"
    /\ hist' = Append(hist, HistEntry(line))
    /\ UNCHANGED end_nl_put

\* the stream ended: self._action(''); self._success = True
parse_end ==
    /\ t_read = "running"
    /\ LET r == ParseEnd([p |-> parser, q |-> end_nl_q, blocked |-> FALSE]) IN
       /\ ~r.blocked
       /\ parser' = r.p
       /\ end_nl_q' = r.q
       /\ t_read' = IF r.p.raised # NoException THEN "raised" ELSE "done"
    /\ hist' = Append(hist, HistEntry(<<>>))
    /\ UNCHANGED end_nl_put

ParseOnlyLine ==
    /\ pc = "parse"
    /\ Len(hist) < MaxParseLines
    /\ \E line \in DiffLines : parse_line(line)
    /\ UNCHANGED <<pc, tmpdir, files, thr, status_queue, proc, pipe, result, fd, rev, inv, col>>

ParseOnlyEnd ==
    /\ pc = "parse"
    /\ parse_end
    /\ UNCHANGED <<pc, tmpdir, files, thr, status_queue, proc, pipe, result, fd, rev, inv, col>>

(***************************************************************************)
(* reverse_unified_diff                                                    *)
(***************************************************************************)
\* str.splitlines(True), for the line boundaries the model has: "\n", "\r"
\* and "\r\n"; cur is the piece being read
RECURSIVE SplitLines(_, _, _)
SplitLines(text, i, cur) ==
    IF i > Len(text) THEN (IF cur = <<>> THEN <<>> ELSE <<cur>>)
    ELSE IF text[i] = "\r" /\ At(text, i + 1) = "\n"
         THEN <<cur \o <<"\r", "\n">>>> \o SplitLines(text, i + 2, <<>>)
    ELSE IF text[i] \in {"\n", "\r"}
         THEN <<Append(cur, text[i])>> \o SplitLines(text, i + 1, <<>>)
    ELSE SplitLines(text, i + 1, Append(cur, text[i]))

\* start, and ',' + len when the group len is not None
RangeText(start, len) == IF len # <<>> THEN start \o <<",">> \o len ELSE start

\* lines 289-308: what one line appends to res
ReverseLine(line) ==
    LET found == RANGE_RE(line) IN
    IF found.found
    THEN <<"@", "@", " ", "-">> \o RangeText(found.start2, found.len2)
             \o <<" ", "+">> \o RangeText(found.start1, found.len1)
             \o <<" ", "@", "@", "\n">>
    ELSE IF StartsWith(line, <<"-">>) THEN <<"+">> \o Tail(line)
    ELSE IF StartsWith(line, <<"+">>) THEN <<"-">> \o Tail(line)
    ELSE line

reverse_unified_diff(diff) ==
    LET lines == SplitLines(diff, 1, <<>>) IN
    Join([i \in 1..Len(lines) |-> ReverseLine(lines[i])])

\* the parse succeeded: reverse_unified_diff(parser.diff)
ReverseOnce ==
    /\ pc = "parse"
    /\ t_read = "done"
    /\ rev.state = None
    /\ rev' = [state |-> "once", diff |-> ParserDiff(parser),
               r1 |-> reverse_unified_diff(ParserDiff(parser))]
    /\ UNCHANGED <<pc, tmpdir, files, thr, status_queue, end_nl_q, proc, pipe,
                   t_read, parser, result, hist, end_nl_put, fd, inv, col>>

\* reverse_unified_diff of the reversed text
ReverseTwice ==
    /\ pc = "parse"
    /\ rev.state = "once"
    /\ rev' = [state |-> "twice", diff |-> rev.diff, r1 |-> rev.r1,
               r2 |-> reverse_unified_diff(rev.r1)]
    /\ UNCHANGED <<pc, tmpdir, files, thr, status_queue, end_nl_q, proc, pipe,
                   t_read, parser, result, hist, end_nl_put, fd, inv, col>>

ParseNext == ParseOnlyLine \/ ParseOnlyEnd \/ ReverseOnce \/ ReverseTwice

ParseSpec == ParseInit /\ [][ParseNext]_vars


(***************************************************************************)
(* diff(feeder1, feeder2): the calling thread, the two ExThreads running   *)
(* feed(), the external diff process and the thread running parse().       *)
(* A feeder is any callable of the caller: it writes chunks to the file    *)
(* it is given, then returns a boolean or raises.                          *)
(***************************************************************************)
MaxChunks == 1     \* the chunks a feeder writes
MaxOutput == 3     \* the lines the external diff writes
PipeCap   == 1     \* the lines the pipe of p.stdout holds before a write blocks

\* the lines the external diff writes in a run of diff()
ProcLines == {Header_1_1, AddedLine, ContextLine, MarkerLine, ErrorLine}

\* p.returncode: no difference, differences, trouble
ExitCodes == {0, 1, 2}

FeederError == "FeederError"      \* the exception a feeder raises

\* the object named diff at line 186: the function diff of the module
DiffFunction == <<"<function diff>">>

Init ==
    /\ pc = "diff"
    /\ tmpdir = FALSE
    /\ files = NoFiles
    /\ thr = [i \in 1..2 |-> "notstarted"]
    /\ status_queue = [i \in 1..2 |-> <<>>]
    /\ end_nl_q = [i \in 1..2 |-> <<>>]
    /\ proc = NoProc
    /\ pipe = <<>>
    /\ t_read = "notstarted"
    /\ parser = [NewParser(None) EXCEPT !.action = None]
    /\ result = NoResult
    /\ hist = <<>>
    /\ end_nl_put = [i \in 1..2 |-> <<>>]
    /\ fd = NoFd
    /\ rev = NoRev
    /\ inv = NoInv
    /\ col = NoCol

\* the with block of line 279 left only by a return removing tmpdir
TemporaryDirectory_exit_OnReturnOnly(raising) == raising

\* the with block of line 279 is left, by a return or by an exception:
\* TemporaryDirectory.__exit__ removes the directory and what it holds;
\* the value is whether tmpdir exists afterwards
TemporaryDirectory_exit(raising) == FALSE

\* lines 276-281: the queues and the scratch directory
diff_enter ==
    /\ pc = "diff"
    /\ tmpdir' = TRUE
    /\ end_nl_q' = [i \in 1..2 |-> <<>>]
    /\ pc' = "fd_from_feeder1"
    /\ UNCHANGED <<files, thr, status_queue, proc, pipe, t_read, parser, result,
                   hist, end_nl_put, fd, rev, inv, col>>

\* fd_from_feeder, lines 231-235: the file is opened, the thread started
fd_from_feeder_start(i) ==
    /\ pc = IF i = 1 THEN "fd_from_feeder1" ELSE "fd_from_feeder2"
    /\ files' = [files EXCEPT ![i] = [open |-> TRUE, exists |-> TRUE, chunks |-> 0]]
    /\ thr' = [thr EXCEPT ![i] = "running"]
    /\ pc' = IF i = 1 THEN "join1" ELSE "join2"
    /\ UNCHANGED <<tmpdir, status_queue, end_nl_q, proc, pipe, t_read, parser,
                   result, hist, end_nl_put, fd, rev, inv, col>>

\* the feeder writes to f
feeder_write(i) ==
    /\ thr[i] = "running"
    /\ files[i].chunks < MaxChunks
    /\ files' = [files EXCEPT ![i].chunks = @ + 1]
    /\ UNCHANGED <<pc, tmpdir, thr, status_queue, end_nl_q, proc, pipe, t_read,
                   parser, result, hist, end_nl_put, fd, rev, inv, col>>

\* feed, lines 197-200: the feeder returned end_nl
feed_return(i) ==
    /\ thr[i] = "running"
    /\ \E end_nl \in BOOLEAN :
           /\ end_nl_q' = [end_nl_q EXCEPT ![i] = Append(@, end_nl)]
           /\ end_nl_put' = [end_nl_put EXCEPT ![i] = Append(@, end_nl)]
    /\ files' = [files EXCEPT ![i].open = FALSE]
    /\ thr' = [thr EXCEPT ![i] = "returned"]
    /\ UNCHANGED <<pc, tmpdir, status_queue, proc, pipe, t_read, parser, result,
                   hist, fd, rev, inv, col>>

\* feed, lines 197-200: the feeder raised; f is closed and nothing is put
feed_raise(i) ==
    /\ thr[i] = "running"
    /\ files' = [files EXCEPT ![i].open = FALSE]
    /\ thr' = [thr EXCEPT ![i] = "raising"]
    /\ UNCHANGED <<pc, tmpdir, status_queue, end_nl_q, proc, pipe, t_read, parser,
                   result, hist, end_nl_put, fd, rev, inv, col>>

\* ExThread.run with the exception swallowed: only None is put
ExThreadStatus_Swallowed(raising) == <<None>>

\* ExThread.run, lines 212-218: what it puts on the status queue
ExThreadStatus(raising) ==
    IF raising THEN <<FeederError, None>> ELSE <<None>>

ExThread_run_end(i) ==
    /\ thr[i] \in {"returned", "raising"}
    /\ status_queue' = [status_queue EXCEPT
                            ![i] = @ \o ExThreadStatus(thr[i] = "raising")]
    /\ thr' = [thr EXCEPT ![i] = IF thr[i] = "raising" THEN "raised" ELSE "done"]
    /\ UNCHANGED <<pc, tmpdir, files, end_nl_q, proc, pipe, t_read, parser, result,
                   hist, end_nl_put, fd, rev, inv, col>>

\* fd_from_feeder returning without t.join(): the thread is left running
fd_from_feeder_NoJoin(i) ==
    /\ pc = IF i = 1 THEN "join1" ELSE "join2"
    /\ pc' = IF i = 1 THEN "fd_from_feeder2" ELSE "run_diff"
    /\ UNCHANGED <<tmpdir, files, thr, status_queue, end_nl_q, proc, pipe, t_read,
                   parser, result, hist, end_nl_put, fd, rev, inv, col>>

\* ExThread.join, lines 223-227, in fd_from_feeder, lines 237-240; an
\* exception leaves diff() through the with block, which removes tmpdir
fd_from_feeder_join(i) ==
    /\ pc = IF i = 1 THEN "join1" ELSE "join2"
    /\ status_queue[i] # <<>>
    /\ status_queue' = [status_queue EXCEPT ![i] = Tail(@)]
    /\ IF Head(status_queue[i]) = None
       THEN /\ pc' = IF i = 1 THEN "fd_from_feeder2" ELSE "run_diff"
            /\ files' = [files EXCEPT ![i].open = FALSE]
            /\ UNCHANGED <<tmpdir, result>>
       ELSE /\ pc' = "done"
            /\ tmpdir' = TemporaryDirectory_exit(TRUE)
            /\ files' = IF tmpdir' THEN [files EXCEPT ![i].open = FALSE] ELSE NoFiles
            /\ result' = [kind |-> "raise", exc |-> Head(status_queue[i])]
    /\ UNCHANGED <<thr, end_nl_q, proc, pipe, t_read, parser, hist, end_nl_put, fd, rev, inv, col>>

\* run_diff, lines 157-174: the process and the parsing thread are started
run_diff_start ==
    /\ pc = "run_diff"
    /\ \E n \in 0..MaxOutput :
           proc' = [state |-> "running", towrite |-> n, returncode |-> None]
    /\ \E m \in BlockLinesSaved : parser' = NewParser(m)
    /\ t_read' = "running"
    /\ pc' = "t_read.join"
    /\ UNCHANGED <<tmpdir, files, thr, status_queue, end_nl_q, pipe, result, hist, end_nl_put,
                   fd, rev, inv, col>>

\* the process writes a line; the write blocks while the pipe is full
p_write ==
    /\ proc.state = "running"
    /\ proc.towrite > 0
    /\ Len(pipe) < PipeCap
    /\ \E line \in ProcLines : pipe' = Append(pipe, line)
    /\ proc' = [proc EXCEPT !.towrite = @ - 1]
    /\ UNCHANGED <<pc, tmpdir, files, thr, status_queue, end_nl_q, t_read, parser,
                   result, hist, end_nl_put, fd, rev, inv, col>>

\* the process wrote all it had to write and exits
p_exit ==
    /\ proc.state = "running"
    /\ proc.towrite = 0
    /\ \E rc \in ExitCodes : proc' = [proc EXCEPT !.state = "exited", !.returncode = rc]
    /\ UNCHANGED <<pc, tmpdir, files, thr, status_queue, end_nl_q, pipe, t_read,
                   parser, result, hist, end_nl_put, fd, rev, inv, col>>

\* the thread t_read: one turn of the loop of parse()
t_read_line ==
    /\ pc # "parse"
    /\ pipe # <<>>
    /\ parse_line(Head(pipe))
    /\ pipe' = Tail(pipe)
    /\ UNCHANGED <<pc, tmpdir, files, thr, status_queue, proc, result, fd, rev, inv, col>>

\* the thread t_read: the stream is at its end
t_read_end ==
    /\ pc # "parse"
    /\ pipe = <<>>
    /\ proc.state = "exited"
    /\ parse_end
    /\ UNCHANGED <<pc, tmpdir, files, thr, status_queue, proc, pipe, result, fd, rev, inv, col>>

\* t_read.join(), line 175
t_read_join ==
    /\ pc = "t_read.join"
    /\ t_read \in {"done", "raised"}
    /\ pc' = "p.wait"
    /\ UNCHANGED <<tmpdir, files, thr, status_queue, end_nl_q, proc, pipe, t_read,
                   parser, result, hist, end_nl_put, fd, rev, inv, col>>

\* run_diff without the test of line 188: exit code 0 returns parser.diff too
RunDiffResult_NoZeroTest(success, returncode, text) ==
    IF ~success /\ returncode \notin {0, 1}
    THEN [kind |-> "raise", exc |-> "CalledProcessError",
          returncode |-> returncode, output |-> DiffFunction]
    ELSE [kind |-> "return", value |-> "parser.diff", text |-> text]

\* run_diff, lines 185-191
RunDiffResult(success, returncode, text) ==
    IF ~success /\ returncode \notin {0, 1}
    THEN [kind |-> "raise", exc |-> "CalledProcessError",
          returncode |-> returncode, output |-> DiffFunction]
    ELSE IF returncode = 0
    THEN [kind |-> "return", value |-> None]
    ELSE [kind |-> "return", value |-> "parser.diff", text |-> text]

\* p.wait(), line 176, then lines 185-191; diff() is left through the with
\* block, which removes tmpdir
p_wait_return ==
    /\ pc = "p.wait"
    /\ proc.state = "exited"
    /\ result' = RunDiffResult(parser.success, proc.returncode, ParserDiff(parser))
    /\ tmpdir' = TemporaryDirectory_exit(result'.kind = "raise")
    /\ files' = IF tmpdir' THEN files ELSE NoFiles
    /\ pc' = "done"
    /\ UNCHANGED <<thr, status_queue, end_nl_q, proc, pipe, t_read, parser,
                   hist, end_nl_put, fd, rev, inv, col>>

Next ==
    \/ diff_enter
    \/ \E i \in 1..2 : fd_from_feeder_start(i)
    \/ \E i \in 1..2 : feeder_write(i)
    \/ \E i \in 1..2 : feed_return(i)
    \/ \E i \in 1..2 : feed_raise(i)
    \/ \E i \in 1..2 : ExThread_run_end(i)
    \/ \E i \in 1..2 : fd_from_feeder_join(i)
    \/ run_diff_start
    \/ p_write
    \/ p_exit
    \/ t_read_line
    \/ t_read_end
    \/ t_read_join
    \/ p_wait_return

Spec == Init /\ [][Next]_vars


(***************************************************************************)
(* make_feeder_from_raw_reader(in_file, filter): one call of the feeder it *)
(* returns, on a file of up to MaxInputLines lines.  Config()'s            *)
(* max_diff_input_lines is [finite, n]: n lines, or float("inf").  The     *)
(* hash is the content it was updated with, one character for a newline.   *)
(* in_file yields its lines as text, so that buf[-1] is a character.       *)
(***************************************************************************)
MaxInputLines == 3     \* the lines of in_file
MaxInputCap   == 2     \* the finite values of max_diff_input_lines

InputLine    == <<"x", "\n">>
InputLineEnd == <<"x">>            \* a last line without a newline

\* the files: every line ends with a newline, but for the last one maybe
InFiles ==
    {[i \in 1..n |-> InputLine] : n \in 0..MaxInputLines}
        \cup {[i \in 1..n |-> IF i = n THEN InputLineEnd ELSE InputLine] :
                  n \in 1..MaxInputLines}

InputCaps ==
    {[finite |-> TRUE, n |-> k] : k \in 1..MaxInputCap}
        \cup {[finite |-> FALSE, n |-> 0]}

\* the filters: the default one, and one that rewrites the line
Filters == {"identity", "upper"}

ApplyFilter(filter, buf) ==
    IF filter = "identity" THEN buf
    ELSE [i \in 1..Len(buf) |-> IF buf[i] = "x" THEN "X" ELSE buf[i]]

\* h.hexdigest(): a string without a newline that the content determines
HexDigest(data) == [i \in 1..Len(data) |-> IF data[i] = "\n" THEN "/" ELSE data[i]]

PlaceholderPrefix ==
    <<"[", " ", "T", "o", "o", " ", "m", "u", "c", "h", " ", "i", "n", "p", "u", "t",
      " ", "f", "o", "r", " ", "d", "i", "f", "f", " ", "(", "S", "H", "A", "1", ":", " ">>

\* "[ Too much input for diff (SHA1: {}) ]\n".format(h.hexdigest())
Placeholder(data) == PlaceholderPrefix \o HexDigest(data) \o <<")", " ", "]", "\n">>

\* line_count < max_lines
BelowCap(line_count, max_lines) == ~max_lines.finite \/ line_count < max_lines.n

\* line_count >= max_lines
AtOrAboveCap(line_count, max_lines) == max_lines.finite /\ line_count >= max_lines.n

FeederInit ==
    /\ pc = "feeder"
    /\ tmpdir = FALSE
    /\ files = NoFiles
    /\ thr = [i \in 1..2 |-> "notstarted"]
    /\ status_queue = [i \in 1..2 |-> <<>>]
    /\ end_nl_q = [i \in 1..2 |-> <<>>]
    /\ proc = NoProc
    /\ pipe = <<>>
    /\ t_read = "notstarted"
    /\ parser = [NewParser(None) EXCEPT !.action = None]
    /\ result = NoResult
    /\ hist = <<>>
    /\ end_nl_put = [i \in 1..2 |-> <<>>]
    /\ rev = NoRev
    /\ inv = NoInv
    /\ col = NoCol
    \* lines 249-255
    /\ \E in_file \in InFiles, filter \in Filters, max_lines \in InputCaps :
           fd = [state      |-> "loop",
                 in_file    |-> in_file,
                 filter     |-> filter,
                 max_lines  |-> max_lines,
                 h          |-> IF max_lines.finite THEN <<(<<>>)>> ELSE <<>>,
                 end_nl     |-> FALSE,
                 line_count |-> 0,
                 out_file   |-> <<>>]

\* lines 257-264: one turn of the loop over in_file
feeder_loop ==
    /\ pc = "feeder"
    /\ fd.state = "loop"
    /\ fd.line_count < Len(fd.in_file)
    /\ LET buf        == fd.in_file[fd.line_count + 1]
           line_count == fd.line_count + 1
           out        == ApplyFilter(fd.filter, buf)
       IN  fd' = [fd EXCEPT
                     !.line_count = line_count,
                     !.h = IF fd.h # <<>> THEN <<fd.h[1] \o out>> ELSE <<>>,
                     !.out_file = IF BelowCap(line_count, fd.max_lines)
                                  THEN Append(@, out) ELSE @,
                     !.end_nl = buf[Len(buf)] = "\n"]
    /\ UNCHANGED <<pc, tmpdir, files, thr, status_queue, end_nl_q, proc, pipe,
                   t_read, parser, result, hist, end_nl_put, rev, inv, col>>

\* lines 266-272: the placeholder, and the value returned
feeder_return ==
    /\ pc = "feeder"
    /\ fd.state = "loop"
    /\ fd.line_count = Len(fd.in_file)
    /\ IF fd.h # <<>> /\ AtOrAboveCap(fd.line_count, fd.max_lines)
       THEN fd' = [fd EXCEPT !.out_file = Append(@, Placeholder(fd.h[1])),
                             !.end_nl = TRUE,
                             !.state = "returned"]
       ELSE fd' = [fd EXCEPT !.state = "returned"]
    /\ UNCHANGED <<pc, tmpdir, files, thr, status_queue, end_nl_q, proc, pipe,
                   t_read, parser, result, hist, end_nl_put, rev, inv, col>>

FeederNext == feeder_loop \/ feeder_return

FeederSpec == FeederInit /\ [][FeederNext]_vars

(***************************************************************************)
(* Two invocations of diff(), each on its own thread, at the same time.    *)
(* inv.fs is the file system under the directory of temporary files: for   *)
(* each directory name whether it exists and what its files f1, f2 hold    *)
(* (<<>>: nothing); inv.run[k] is invocation k: its position, its two      *)
(* inputs (what feeder i writes and the end_nl it returns), its locals     *)
(* tmpdir, end_nl_q1, end_nl_q2, what its diff process read from the two   *)
(* paths, what its parser got from the two queues, and its result.  The    *)
(* output of the external diff has a no-newline marker, so that the        *)
(* parser reads both queues.                                               *)
(***************************************************************************)
MaxContent  == 2     \* the contents a feeder can write: 1..MaxContent
MaxDirNames == 2     \* the names mkdtemp can give a directory

Invocations == 1..2
DirNames    == 1..MaxDirNames
Contents    == 1..MaxContent

\* the inputs of one invocation: a pair of feeders
FeederPairs == [data : [1..2 -> Contents], end_nl : [1..2 -> BOOLEAN]]

\* tempfile.TemporaryDirectory() reusing one fixed path
mkdtemp_FixedName(fs) == {1}

\* tempfile.TemporaryDirectory(), line 279: a directory that did not exist
mkdtemp(fs) == {n \in DirNames : ~fs[n].exists}

\* what run_diff makes of the two files its process read and of the two
\* values its parser got: no difference, or a text that depends on both
ConcResult(read, got) ==
    IF read[1] = read[2]
    THEN [kind |-> "return", value |-> None]
    ELSE [kind |-> "return", value |-> "parser.diff",
          sides |-> read, end_nl |-> got[1] /\ got[2]]

\* the result of diff(feeder1, feeder2) run with no other invocation
RunAlone(input) ==
    ConcResult(<<(<<input.data[1]>>), (<<input.data[2]>>)>>, input.end_nl)

OthersThanInv ==
    <<pc, tmpdir, files, thr, status_queue, end_nl_q, proc, pipe, t_read, parser,
      result, hist, end_nl_put, fd, rev, col>>

ConcInit ==
    /\ pc = "concurrent"
    /\ tmpdir = FALSE
    /\ files = NoFiles
    /\ thr = [i \in 1..2 |-> "notstarted"]
    /\ status_queue = [i \in 1..2 |-> <<>>]
    /\ end_nl_q = [i \in 1..2 |-> <<>>]
    /\ proc = NoProc
    /\ pipe = <<>>
    /\ t_read = "notstarted"
    /\ parser = [NewParser(None) EXCEPT !.action = None]
    /\ result = NoResult
    /\ hist = <<>>
    /\ end_nl_put = [i \in 1..2 |-> <<>>]
    /\ fd = NoFd
    /\ rev = NoRev
    /\ col = NoCol
    /\ \E in1, in2 \in FeederPairs :
           inv = [state |-> "running",
                  fs    |-> [n \in DirNames |->
                                [exists |-> FALSE, f |-> <<(<<>>), (<<>>)>>]],
                  run   |-> [k \in Invocations |->
                                [pc     |-> "diff",
                                 input  |-> IF k = 1 THEN in1 ELSE in2,
                                 tmpdir |-> 0,
                                 q      |-> <<(<<>>), (<<>>)>>,
                                 read   |-> <<(<<>>), (<<>>)>>,
                                 got    |-> <<>>,
                                 result |-> NoResult]]]

\* diff, lines 276-281: two new queues, a new directory
conc_enter(k) ==
    /\ inv.run[k].pc = "diff"
    /\ \E n \in mkdtemp(inv.fs) :
           inv' = [inv EXCEPT
                      !.fs[n] = [exists |-> TRUE, f |-> <<(<<>>), (<<>>)>>],
                      !.run[k].tmpdir = n,
                      !.run[k].q = <<(<<>>), (<<>>)>>,
                      !.run[k].pc = "open1"]
    /\ UNCHANGED OthersThanInv

\* fd_from_feeder, line 231: open(fifo, 'wb') creates the file, or empties it
conc_open(k, i) ==
    /\ inv.run[k].pc = (IF i = 1 THEN "open1" ELSE "open2")
    /\ inv' = [inv EXCEPT
                  !.fs[inv.run[k].tmpdir].f[i] = <<>>,
                  !.run[k].pc = IF i = 1 THEN "feed1" ELSE "feed2"]
    /\ UNCHANGED OthersThanInv

\* feed, lines 197-200, and fd_from_feeder's join: the feeder wrote its
\* data to the file and its end_nl was put on the queue
conc_feed(k, i) ==
    /\ inv.run[k].pc = (IF i = 1 THEN "feed1" ELSE "feed2")
    /\ inv' = [inv EXCEPT
                  !.fs[inv.run[k].tmpdir].f[i] = <<inv.run[k].input.data[i]>>,
                  !.run[k].q[i] = Append(@, inv.run[k].input.end_nl[i]),
                  !.run[k].pc = IF i = 1 THEN "open2" ELSE "run_diff"]
    /\ UNCHANGED OthersThanInv

\* run_diff, lines 157-168: the process reads the files at fifo1 and fifo2
conc_run_diff(k) ==
    /\ inv.run[k].pc = "run_diff"
    /\ inv' = [inv EXCEPT
                  !.run[k].read = inv.fs[inv.run[k].tmpdir].f,
                  !.run[k].pc = "parse"]
    /\ UNCHANGED OthersThanInv

\* read_hunk, lines 115-118, then run_diff's result, lines 185-191
conc_parse(k) ==
    /\ inv.run[k].pc = "parse"
    /\ inv.run[k].q[1] # <<>>
    /\ inv.run[k].q[2] # <<>>
    /\ LET got == <<Head(inv.run[k].q[1]), Head(inv.run[k].q[2])>> IN
       inv' = [inv EXCEPT
                  !.run[k].got = got,
                  !.run[k].q = <<Tail(inv.run[k].q[1]), Tail(inv.run[k].q[2])>>,
                  !.run[k].result = ConcResult(inv.run[k].read, got),
                  !.run[k].pc = "exit"]
    /\ UNCHANGED OthersThanInv

\* the with block of line 279 is left: the directory is removed
conc_exit(k) ==
    /\ inv.run[k].pc = "exit"
    /\ inv' = [inv EXCEPT
                  !.fs[inv.run[k].tmpdir] =
                      [exists |-> TemporaryDirectory_exit(FALSE),
                       f |-> IF TemporaryDirectory_exit(FALSE)
                             THEN @.f ELSE <<(<<>>), (<<>>)>>],
                  !.run[k].pc = "done"]
    /\ UNCHANGED OthersThanInv

ConcNext ==
    \E k \in Invocations :
        \/ conc_enter(k)
        \/ \E i \in 1..2 : conc_open(k, i)
        \/ \E i \in 1..2 : conc_feed(k, i)
        \/ conc_run_diff(k)
        \/ conc_parse(k)
        \/ conc_exit(k)

ConcSpec == ConcInit /\ [][ConcNext]_vars

(***************************************************************************)
(* color_unified_diff(diff) on a text of up to MaxColorLines lines.  The   *)
(* escape character is the one-element string "ESC".                       *)
(***************************************************************************)
MaxColorLines == 3

RESET == <<"ESC", "[", "0", "m">>
RED   == <<"ESC", "[", "3", "1", "m">>
GREEN == <<"ESC", "[", "3", "2", "m">>
CYAN  == <<"ESC", "[", "0", ";", "3", "6", "m">>

\* the lines of the texts: lines of a diff, an empty line, lines with
\* another first character, and a last line without a newline
ColorLines ==
    {Header_1_1, AddedLine, RemovedLine, ContextLine, MarkerLine,
     <<"\n">>, <<"1", "\n">>, <<"a", "\n">>}

ColorLastLines == {<<>>, <<"+", "a">>}

\* re_diff_change, line 37: the class [+-@], the characters from '+' to '@'
InClass(c) ==
    c \in {"+", ",", "-", ".", "/", "0", "1", "2", "3", "4", "5", "6", "7", "8",
           "9", ":", ";", "<", "=", ">", "?", "@"}

\* the first index >= i of text that holds a newline (Len(text)+1 when none):
\* where .* stops
RECURSIVE LineEnd(_, _)
LineEnd(text, i) ==
    IF i > Len(text) \/ text[i] = "\n" THEN i ELSE LineEnd(text, i + 1)

\* repl(m), lines 315-320: the lookup of m.group(1) raises KeyError for a
\* character that is no key
repl(m) ==
    IF m[1] \notin {"-", "@", "+"}
    THEN [raised |-> <<"KeyError", m[1]>>, out |-> <<>>]
    ELSE [raised |-> <<>>,
          out |-> (CASE m[1] = "-" -> RED [] m[1] = "@" -> CYAN [] m[1] = "+" -> GREEN)
                      \o m \o RESET]

\* re_diff_change.sub(repl, diff) from index i, the start of a line: ^ with
\* re.MULTILINE matches at the start of the text and after each newline
RECURSIVE ColorSub(_, _)
ColorSub(text, i) ==
    IF i > Len(text) THEN [raised |-> <<>>, out |-> <<>>]
    ELSE
      LET e    == LineEnd(text, i)
          m    == SubSeq(text, i, e - 1)
          this == IF InClass(text[i]) THEN repl(m) ELSE [raised |-> <<>>, out |-> m]
      IN  IF this.raised # <<>> THEN this
          ELSE IF e > Len(text) THEN this
          ELSE LET rest == ColorSub(text, e + 1) IN
               IF rest.raised # <<>> THEN rest
               ELSE [raised |-> <<>>, out |-> this.out \o <<"\n">> \o rest.out]

color_unified_diff(diff) == ColorSub(diff, 1)

ColorInit ==
    /\ pc = "color"
    /\ tmpdir = FALSE
    /\ files = NoFiles
    /\ thr = [i \in 1..2 |-> "notstarted"]
    /\ status_queue = [i \in 1..2 |-> <<>>]
    /\ end_nl_q = [i \in 1..2 |-> <<>>]
    /\ proc = NoProc
    /\ pipe = <<>>
    /\ t_read = "notstarted"
    /\ parser = [NewParser(None) EXCEPT !.action = None]
    /\ result = NoResult
    /\ hist = <<>>
    /\ end_nl_put = [i \in 1..2 |-> <<>>]
    /\ fd = NoFd
    /\ rev = NoRev
    /\ inv = NoInv
    /\ \E n \in 0..(MaxColorLines - 1) :
         \E lines \in [1..n -> ColorLines], last \in ColorLastLines :
           col = [state |-> "called",
                  lines |-> IF last = <<>> THEN lines ELSE Append(lines, last)]

\* the call returns, or raises
color_apply ==
    /\ pc = "color"
    /\ col.state = "called"
    /\ LET r == color_unified_diff(Join(col.lines)) IN
       col' = [state |-> "done", lines |-> col.lines,
               raised |-> r.raised, out |-> r.out]
    /\ UNCHANGED <<pc, tmpdir, files, thr, status_queue, end_nl_q, proc, pipe,
                   t_read, parser, result, hist, end_nl_put, fd, rev, inv>>

ColorNext == color_apply

ColorSpec == ColorInit /\ [][ColorNext]_vars

(***************************************************************************)
(* Properties of diff() and run_diff                                       *)
(***************************************************************************)
\* what the process wrote and parse() read: the output a failure would carry
CapturedOutput == Join([i \in 1..Len(hist) |-> hist[i].line])

RunDiffDone == pc = "done" /\ proc.state = "exited"

ParseFailed == t_read = "raised"

\* C1: when the external diff exits with a code outside {0,1}, run_diff ends
\* in a failure carrying the exit code and the captured output, and returns
\* neither a diff text nor None, whether or not the parse succeeded.
C1_BadExitIsFailure ==
    (RunDiffDone /\ proc.returncode \notin {0, 1}) =>
        /\ result.kind = "raise"
        /\ result.exc = "CalledProcessError"
        /\ result.returncode = proc.returncode
        /\ result.output = CapturedOutput

\* C2: when parse() failed, run_diff reports a failure, also when the process
\* exited with 0 or 1: it returns neither None nor the text accumulated so far.
C2_FailedParseIsFailure ==
    (RunDiffDone /\ ParseFailed) => result.kind = "raise"

\* C3: exit code 0 gives None whatever the parser accumulated; exit code 1
\* with a successful parse gives exactly the text the parser accumulated.
C3_ResultMapping ==
    RunDiffDone =>
        /\ proc.returncode = 0 =>
               (result.kind = "return" /\ result.value = None)
        /\ (proc.returncode = 1 /\ parser.success) =>
               /\ result.kind = "return"
               /\ result.value = "parser.diff"
               /\ result.text = ParserDiff(parser)

\* C3's cases happen: exit code 1 after a successful parse of a hunk, and
\* exit code 0 after the parser accumulated text
C3_Witness ==
    /\ RunDiffDone
    /\ parser.diff # <<>>
    /\ \/ proc.returncode = 1 /\ parser.success /\ result.kind = "return"
       \/ proc.returncode = 0 /\ result.kind = "return"

\* C4: the thread of diff() never waits for a feeder to finish before both
\* feeders are started and the external diff is launched: the second feeder
\* starts without waiting for the first, and the diff runs beside the feeders.
C4_BridgesRunConcurrently ==
    pc \in {"join1", "join2"} =>
        /\ thr[1] # "notstarted"
        /\ thr[2] # "notstarted"
        /\ proc.state # "notstarted"

\* C5: run_diff never deadlocks: until diff() is done some thread or the
\* process can take a step, whatever the process writes and also after the
\* parser failed part-way.
C5_NoDeadlock == pc = "done" \/ ENABLED Next

\* C10: an exception of a feeder is raised again in the thread that joins the
\* bridge and leaves diff(); a feeder that returned makes join return.
C10_FeederExceptionPropagates ==
    /\ \A i \in 1..2 :
           thr[i] = "raised" =>
               /\ pc \in {IF i = 1 THEN "join1" ELSE "join2", "done"}
               /\ pc = "done" =>
                      (result.kind = "raise" /\ result.exc = FeederError)
    /\ (pc = "done" /\ result.kind = "raise" /\ result.exc = FeederError) =>
           \E i \in 1..2 : thr[i] = "raised"
    /\ (thr[1] = "done" /\ thr[2] = "done" /\ pc = "done") => proc.state = "exited"

\* C10's case happens: the second feeder raised after the first returned, and
\* diff() raised its exception
C10_Witness ==
    /\ pc = "done"
    /\ thr[1] = "done"
    /\ thr[2] = "raised"
    /\ result.kind = "raise"
    /\ result.exc = FeederError


(***************************************************************************)
(* Properties of DiffParser, stated on the history of parse(): line i is   *)
(* hist[i].line, handed to _action in the state hist[i] records ('' is the *)
(* last line, at the end of the stream); the state after line i is the     *)
(* one before line i+1, or the current one for the last.                   *)
(***************************************************************************)
NoutAfter(i) == IF i < Len(hist) THEN hist[i + 1].nout ELSE Len(parser.diff)

ActionAfter(i) == IF i < Len(hist) THEN hist[i + 1].action ELSE parser.action

RemainingAfter(i) ==
    IF i < Len(hist) THEN hist[i + 1].remaining ELSE parser.remaining_hunk_lines

\* line i was handed to read_hunk or skip_block
InHunkState(i) == hist[i].action \in {"read_hunk", "skip_block"}

\* line i is a no-newline marker met in a hunk
IsMarker(i) == InHunkState(i) /\ At(hist[i].line, 1) = "\\"

\* the last string line i wrote to the output is the line itself
Emitted(i) ==
    /\ NoutAfter(i) > hist[i].nout
    /\ parser.diff[NoutAfter(i)] = hist[i].line

\* both feeders reported an input that ended without a trailing newline:
\* both put end_nl = False (line 264: end_nl is buf[-1] == '\n')
BothEndedWithoutNewline ==
    /\ end_nl_put[1] # <<>> /\ ~end_nl_put[1][1]
    /\ end_nl_put[2] # <<>> /\ ~end_nl_put[2][1]

\* C6: a no-newline marker met in a hunk is suppressed if and only if both
\* feeders reported an input without a trailing newline, and is emitted when
\* one side or neither did; either way the parser stays in read_hunk and
\* remaining_hunk_lines is unchanged.
C6_MarkerSuppressedIffBothWithoutNewline ==
    \A i \in 1..Len(hist) :
        IsMarker(i) =>
            /\ ~Emitted(i) <=> BothEndedWithoutNewline
            /\ ActionAfter(i) = "read_hunk"
            /\ RemainingAfter(i) = hist[i].remaining

\* line i belongs to a run of direction d: a '+' or '-' line of a hunk that
\* still expects lines
RunLine(i, d) ==
    /\ i \in 1..Len(hist)
    /\ InHunkState(i)
    /\ hist[i].remaining > 0
    /\ At(hist[i].line, 1) = d

\* lines s..e are a run of direction d that nothing interrupts, as long as
\* it can be (the line before s is not of the run), and the run has ended:
\* by the next line, by the hunk, or by the end of the input
EndedRun(s, e, d) ==
    /\ \A i \in s..e : RunLine(i, d)
    /\ ~RunLine(s - 1, d)
    /\ e < Len(hist)
    /\ ~RunLine(e + 1, d)

\* C7: of a run of n > M lines of one direction in a hunk, M the threshold,
\* the parser emits the first M lines and then one summary line
\* '<direction>[ n-M lines removed ]', whether a line of another kind, the
\* end of the hunk or the end of the input ended the run; the line that
\* ended it follows the summary when read_hunk writes it.
C7_RunTruncatedToThreshold ==
    \A s \in 1..Len(hist) : \A e \in s..Len(hist) : \A d \in {"+", "-"} :
        (EndedRun(s, e, d) /\ e - s + 1 > parser.max_lines) =>
            LET M     == parser.max_lines
                first == NoutAfter(s)       \* where line s was written
            IN  /\ Len(parser.diff) >= first + M
                /\ \A k \in 0..(M - 1) : parser.diff[first + k] = hist[s + k].line
                /\ NoutAfter(e) = first + M - 1
                /\ parser.diff[first + M] = SummaryLine(d, e - s + 1 - M)
                /\ NoutAfter(e + 1) <= first + M + 1
                /\ NoutAfter(e + 1) = first + M + 1 =>
                       parser.diff[first + M + 1] = hist[e + 1].line


(***************************************************************************)
(* Properties of reverse_unified_diff on the texts the parser produced     *)
(***************************************************************************)
\* the line the parser wrote, reversed as the claim describes: the pairs of
\* a hunk header swapped (an omitted length stays omitted), the leading '+'
\* or '-' of a content or summary line swapped, any other line unchanged
SwappedLine(line) ==
    LET h == RANGE_RE(line) IN
    IF h.found
    THEN Header(RangeText(h.start2, h.len2), <<" ">>, RangeText(h.start1, h.len1))
    ELSE IF line[1] = "+" THEN <<"-">> \o Tail(line)
    ELSE IF line[1] = "-" THEN <<"+">> \o Tail(line)
    ELSE line

\* C9: reverse_unified_diff is an involution on the texts the parser
\* produced, and one application swaps the pairs of every hunk header and the
\* leading '+'/'-' of every content line, and leaves context and marker
\* lines unchanged.
C9_ReverseIsInvolution ==
    /\ rev.state \in {"once", "twice"} =>
           rev.r1 = Join([i \in 1..Len(parser.diff) |-> SwappedLine(parser.diff[i])])
    /\ rev.state = "twice" => rev.r2 = rev.diff


(***************************************************************************)
(* Properties of the feeder of make_feeder_from_raw_reader                 *)
(***************************************************************************)
IsPlaceholder(line) == StartsWith(line, PlaceholderPrefix)

\* the first k lines of in_file, filtered
FilteredLines(k) == [i \in 1..k |-> ApplyFilter(fd.filter, fd.in_file[i])]

\* C8: with an input-line cap N, a file of n <= N lines is written whole with
\* no placeholder; of a file of n > N lines the first N lines are written,
\* then one placeholder line, and the feeder returns true.
C8_FeederCapsInput ==
    (fd.state = "returned" /\ fd.max_lines.finite) =>
        LET n == Len(fd.in_file)
            N == fd.max_lines.n
        IN  /\ n <= N => fd.out_file = FilteredLines(n)
            /\ n > N =>
                   /\ Len(fd.out_file) = N + 1
                   /\ SubSeq(fd.out_file, 1, N) = FilteredLines(N)
                   /\ IsPlaceholder(fd.out_file[N + 1])
                   /\ fd.end_nl = TRUE


(***************************************************************************)
(* Properties of the scratch directory of diff()                           *)
(***************************************************************************)
DiffFinished == pc = "done"

\* C11: when diff() has finished, by returning a diff text, by returning
\* None, by a feeder's exception or by a failure raised by run_diff, its
\* scratch directory and the two files in it do not exist any more.
C11_ScratchDirectoryRemoved ==
    DiffFinished =>
        /\ result.kind \in {"return", "raise"}
        /\ ~tmpdir
        /\ \A i \in 1..2 : ~files[i].exists

\* diff() finished by a failure of run_diff, after both files were created
C11_Witness ==
    /\ DiffFinished
    /\ result.kind = "raise"
    /\ result.exc = "CalledProcessError"
    /\ \A i \in 1..2 : thr[i] = "done"
    /\ ~tmpdir


(***************************************************************************)
(* Properties of the failures of DiffParser.parse                          *)
(***************************************************************************)
\* the parse errors of the handlers: ValueError with the repr of the line
ParseErrors ==
    {"ValueError: Unable to parse diff headers",
     "ValueError: Unable to parse diff hunk"}

IsHeader(i) == At(hist[i].line, 1) = "@" /\ RANGE_RE(hist[i].line).found

\* len1 + len2 of the header, a length left out counting 1
HeaderLines12(line) ==
    LET found == RANGE_RE(line) IN
    (IF found.len1 = <<>> THEN 1 ELSE StrToInt(found.len1))
        + (IF found.len2 = <<>> THEN 1 ELSE StrToInt(found.len2))

\* handling line i raised the parse error of read_hunk, with that line
RaisedHunkErrorAt(i) ==
    /\ i = Len(hist)
    /\ ParseFailed
    /\ parser.raised = [type |-> "ValueError: Unable to parse diff hunk",
                        line |-> hist[i].line]

\* C13: a hunk header sets remaining_hunk_lines to len1 + len2; in a hunk a
\* context line takes 2 from it, a '+' or '-' line 1 (in skip_block too), a
\* marker line nothing; a hunk header met in a hunk is handled by
\* read_headers at once when remaining_hunk_lines is 0, and raises a parse
\* error when it is not.  Stated of the line handled last, in every state.
C13_HunkAccounting ==
    hist # <<>> =>
        LET i == Len(hist)
            c == At(hist[i].line, 1) IN
        /\ (c = "@" /\ IsHeader(i)) =>
               IF hist[i].action = "read_headers" \/ hist[i].remaining = 0
               THEN /\ RemainingAfter(i) = HeaderLines12(hist[i].line)
                    /\ ActionAfter(i) = "read_hunk"
                    /\ Emitted(i)
               ELSE RaisedHunkErrorAt(i)
        /\ (InHunkState(i) /\ c = " ") =>
               RemainingAfter(i) = hist[i].remaining - 2
        /\ (InHunkState(i) /\ c \in {"+", "-"}) =>
               RemainingAfter(i) = hist[i].remaining - 1
        /\ (InHunkState(i) /\ c = "\\") =>
               RemainingAfter(i) = hist[i].remaining

\* a hunk of a context line and lines skipped in skip_block, counted down
\* to 0, and the next header handled from skip_block
C13_Witness ==
    \E i \in 1..Len(hist) :
        /\ IsHeader(i)
        /\ hist[i].action = "skip_block"
        /\ hist[i].remaining = 0
        /\ ActionAfter(i) = "read_hunk"
        /\ \E j \in 1..(i - 1) : InHunkState(j) /\ At(hist[j].line, 1) = " "


(***************************************************************************)
(* Properties of two invocations of diff() at the same time                *)
(***************************************************************************)
\* invocation k holds a scratch directory
HoldsDir(k) == inv.run[k].pc \notin {"diff", "done"}

\* C14: two invocations of diff() at the same time never hold the same
\* scratch directory, the parser of each gets the end_nl values of its own
\* two feeders, and the result of each is the result of the invocation run
\* alone.
C14_InvocationsIndependent ==
    /\ \A k, j \in Invocations :
           (k # j /\ HoldsDir(k) /\ HoldsDir(j)) =>
               inv.run[k].tmpdir # inv.run[j].tmpdir
    /\ \A k \in Invocations :
           inv.run[k].pc \in {"exit", "done"} =>
               /\ inv.run[k].got = <<inv.run[k].input.end_nl[1],
                                     inv.run[k].input.end_nl[2]>>
               /\ inv.run[k].result = RunAlone(inv.run[k].input)

\* both invocations have their result while both directories still exist,
\* on inputs that give different results
C14_Witness ==
    /\ inv.run[1].pc = "exit"
    /\ inv.run[2].pc = "exit"
    /\ inv.run[1].input.end_nl # inv.run[2].input.end_nl
    /\ inv.run[1].result # inv.run[2].result
    /\ inv.run[1].result.value # None


(***************************************************************************)
(* Properties of color_unified_diff                                        *)
(***************************************************************************)
\* the line without its newline, and the newline if it has one
LineBody(line) == SubSeq(line, 1, LineEnd(line, 1) - 1)

LineNewline(line) == SubSeq(line, LineEnd(line, 1), Len(line))

\* the line as the claim colours it
ColouredLine(line) ==
    LET c == At(line, 1) IN
    IF c = "@" THEN CYAN \o LineBody(line) \o RESET \o LineNewline(line)
    ELSE IF c = "+" THEN GREEN \o LineBody(line) \o RESET \o LineNewline(line)
    ELSE IF c = "-" THEN RED \o LineBody(line) \o RESET \o LineNewline(line)
    ELSE line

\* C15: color_unified_diff never fails, wraps each line whose first
\* character is '@', '+' or '-' in its colour and the reset, the reset
\* before the line's newline, and returns every other line unchanged.
C15_ColorWrapsChangedLines ==
    (pc = "color" /\ col.state = "done") =>
        /\ col.raised = <<>>
        /\ col.out = Join([i \in 1..Len(col.lines) |-> ColouredLine(col.lines[i])])


(***************************************************************************)
(* Properties of the end of the input                                      *)
(***************************************************************************)
\* the stream ended while the parser was in a hunk that expected lines
EndedInPendingHunk ==
    /\ hist # <<>>
    /\ hist[Len(hist)].line = <<>>
    /\ InHunkState(Len(hist))
    /\ hist[Len(hist)].remaining # 0

\* C16: when the output ends while the parser is in a hunk whose
\* remaining_hunk_lines is not 0, parse() does not end with success true.
C16_EndInPendingHunkIsNoSuccess ==
    (pc = "parse" /\ EndedInPendingHunk) => ~parser.success


(***************************************************************************)
(* Properties of the sign of remaining_hunk_lines                          *)
(***************************************************************************)
\* what a body line takes from remaining_hunk_lines
BodyLineCount(c) == IF c = " " THEN 2 ELSE 1

\* C17: a context, '+' or '-' line that arrives in a hunk when
\* remaining_hunk_lines is 0, or that would take it below 0, raises a parse
\* error and is not written to the output; remaining_hunk_lines is not
\* negative in a state the parser continues from.  Stated of the line
\* handled last, in every state.
C17_RemainingNeverNegative ==
    (pc = "parse" /\ hist # <<>>) =>
        LET i == Len(hist)
            c == At(hist[i].line, 1) IN
        (InHunkState(i) /\ c \in {" ", "+", "-"}
             /\ hist[i].remaining - BodyLineCount(c) < 0) =>
            /\ ParseFailed
            /\ parser.raised.type \in ParseErrors
            /\ parser.raised.line = hist[i].line
            /\ Len(parser.diff) = hist[i].nout
            /\ parser.remaining_hunk_lines >= 0


(***************************************************************************)
(* Properties of the order of the bridges and the parser in diff()         *)
(***************************************************************************)
\* the thread of parse() has a line to handle
ParserHasLine == pc # "parse" /\ t_read = "running" /\ pipe # <<>>

\* the parser resolved the trailing-newline decision: it read both queues
Resolved == parser.end_nl # <<>>

\* C18: in diff(), both bridges are started before any output of the
\* external diff is read; when the parser has read the two end_nl queues,
\* both bridges had finished and had put their value; and the parser is
\* never kept waiting by a line it has to handle, a no-newline marker
\* included.
C18_BridgesBeforeParser ==
    /\ hist # <<>> => \A i \in 1..2 : thr[i] # "notstarted"
    /\ Resolved => \A i \in 1..2 : thr[i] = "done" /\ Len(end_nl_put[i]) = 1
    /\ ParserHasLine => ENABLED t_read_line

\* the parser resolved the decision on a marker of the output of diff()
C18_Witness ==
    /\ pc \in {"t_read.join", "p.wait", "done"}
    /\ Resolved
    /\ \E i \in 1..Len(hist) : IsMarker(i)


(***************************************************************************)
(* Properties of the trailing-newline decision                             *)
(***************************************************************************)
EndNlAfter(i) == IF i < Len(hist) THEN hist[i + 1].end_nl ELSE parser.end_nl

QueuesAfter(i) == IF i < Len(hist) THEN hist[i + 1].q ELSE end_nl_q

\* C19: each end_nl queue is written at most once; a line that is no
\* no-newline marker of a hunk reads no queue; the first marker reads each
\* queue once and decides; every later marker reads no queue and keeps the
\* decision, whether it is true or false.  Stated of the line handled last,
\* in every state.
C19_DecisionLazyAndOnce ==
    /\ \A k \in 1..2 : Len(end_nl_put[k]) <= 1
    /\ (pc # "parse" /\ hist # <<>>) =>
           LET i == Len(hist) IN
           IF IsMarker(i) /\ hist[i].end_nl = <<>>
           THEN /\ EndNlAfter(i) = <<end_nl_put[1][1] /\ end_nl_put[2][1]>>
                /\ \A k \in 1..2 : /\ hist[i].q[k] = end_nl_put[k]
                                   /\ QueuesAfter(i)[k] = <<>>
           ELSE /\ EndNlAfter(i) = hist[i].end_nl
                /\ QueuesAfter(i) = hist[i].q

\* a second marker was handled after the decision was made
C19_Witness ==
    /\ pc # "parse"
    /\ \E i, j \in 1..Len(hist) :
           /\ i < j
           /\ IsMarker(i)
           /\ IsMarker(j)
           /\ hist[i].end_nl = <<>>
           /\ hist[j].end_nl = <<FALSE>>


(***************************************************************************)
(* Properties of the lines the truncation leaves out                       *)
(***************************************************************************)
\* the numbers a summary line of a parse of this length can hold
SummaryCounts == 0..(MaxParseLines + 1)

\* the string the parser wrote is a summary line
IsSummary(str) ==
    \E d \in {"+", "-"}, n \in SummaryCounts : str = SummaryLine(d, n)

\* N of the summary line '<direction>[ N lines removed ]'
SummaryCount(str) ==
    CHOOSE n \in SummaryCounts : \E d \in {"+", "-"} : str = SummaryLine(d, n)

\* the sum of N over the summary lines among the first k strings written
RECURSIVE SummarySum(_)
SummarySum(k) ==
    IF k = 0 THEN 0
    ELSE SummarySum(k - 1)
             + (IF IsSummary(parser.diff[k]) THEN SummaryCount(parser.diff[k]) ELSE 0)

\* line i is a '+' or '-' line consumed in a hunk
ConsumedChange(i) == InHunkState(i) /\ At(hist[i].line, 1) \in {"+", "-"}

\* the consumed '+' and '-' lines that were not written to the output
NotWritten == {i \in 1..Len(hist) : ConsumedChange(i) /\ ~Emitted(i)}

\* C20: when the parser has accepted its input, the sum of N over the
\* summary lines it wrote is the number of '+' and '-' lines it consumed
\* and did not write, and no summary line holds N = 0.
C20_LineConservation ==
    (pc = "parse" /\ t_read = "done") =>
        /\ SummarySum(Len(parser.diff)) = Cardinality(NotWritten)
        /\ \A k \in 1..Len(parser.diff) :
               IsSummary(parser.diff[k]) => SummaryCount(parser.diff[k]) # 0


====
